---- MODULE Spec2Model ----
(***************************************************************************)
(* Model of tasks/ast_codegen/src/schema.rs: the Module lifecycle          *)
(* (with_path, load, expand, build), the free function expand that turns   *)
(* an inherit_variants! invocation into an enum with unlinked inherits,    *)
(* and the parser of the brace-delimited body of that invocation.          *)
(*                                                                         *)
(* Conventions.  Option<T> is a sequence of length 0 (None) or 1 (Some).   *)
(* A TypeRef (Rc<RefCell<RType>>) is a handle <<m, i>> into the arena      *)
(* heap, which maps every allocated handle to the RType it holds.          *)
(* A token stream is a sequence of tokens; "#[a]" is one outer attribute,  *)
(* "@" and "," are punctuation and every other token is an identifier.     *)
(***************************************************************************)
EXTENDS Naturals, Sequences, FiniteSets, TLC

Unit == <<>>

VARIABLES fs, mod, live, res, schema, heap, reads, proc, nexp, arg, ret

vars == <<fs, mod, live, res, schema, heap, reads, proc, nexp, arg, ret>>

(***************************************************************************)
(* Bounds of the model.                                                    *)
(***************************************************************************)
\* longest file, in top-level items
MaxItems == 2
\* longest brace-delimited body handed to the free function expand, in tokens
MaxBodyLen == 6
\* how many times expand is called on one loaded Module
MaxExpands == 2

(***************************************************************************)
(* Tokens.                                                                 *)
(***************************************************************************)
Punct == {"@", ",", "#[a]"}

Tokens == {"A", "B", "inherit"} \cup Punct

IsIdent(t) == t \notin Punct

None == <<>>

Some(v) == <<v>>

\* Path::is_ident: the path is the single segment `name`
is_ident(path, name) == path = <<name>>

(***************************************************************************)
(* Results.  Ok carries a value (r.val[1]); Err carries the error string;   *)
(* a panic carries its message and never returns to the caller.            *)
(***************************************************************************)
LOAD_ERROR == "should be loaded by now!"

Ok(v) == [tag |-> "Ok", val |-> <<v>>, msg |-> ""]

Err(s) == [tag |-> "Err", val |-> None, msg |-> s]

Panic(s) == [tag |-> "Panic", val |-> None, msg |-> s]

(***************************************************************************)
(* Inherit and EnumMeta.                                                   *)
(***************************************************************************)
Unlinked(name) == [tag |-> "Unlinked", name |-> name]

\* impl From<Ident> for Inherit
InheritFromIdent(ident) == Unlinked(ident)

EnumMetaDefault == [inherits |-> <<>>]

StructMeta == [unit |-> TRUE]

REnum_with_meta(item, meta) == [item |-> item, meta |-> meta]

\* impl From<ItemEnum> for REnum
REnumFromItem(item) == [item |-> item, meta |-> EnumMetaDefault]

\* impl From<ItemStruct> for RStruct
RStructFromItem(item) == [item |-> item, meta |-> StructMeta]

(***************************************************************************)
(* RType, and the conversion of a syn Item into it.                        *)
(***************************************************************************)
REnumNode(e) == [kind |-> "Enum", item |-> e.item, meta |-> e.meta]

RStructNode(s) == [kind |-> "Struct", item |-> s.item, meta |-> s.meta]

\* impl TryFrom<Item> for RType
TryFromItem(item) ==
    CASE item.kind = "Enum" -> Ok(REnumNode(REnumFromItem(item)))
      [] item.kind = "Struct" -> Ok(RStructNode(RStructFromItem(item)))
      [] item.kind = "Macro" -> Ok([kind |-> "Macro", item |-> item])
      [] item.kind = "Use" -> Ok([kind |-> "Use", item |-> item])
      [] item.kind = "Const" -> Ok([kind |-> "Const", item |-> item])
      [] OTHER -> Err("Unsupported Item!")

(***************************************************************************)
(* The parser of the brace-delimited body (expand, the while loop).        *)
(* A cursor p is the index of the next token.  syn advances the cursor as  *)
(* each sub-parse succeeds and does not rewind it when a later sub-parse   *)
(* fails: Variant::parse consumes the outer attributes it finds before it  *)
(* fails on a missing identifier.                                          *)
(***************************************************************************)
RECURSIVE SkipAttrs(_, _)
\* Attribute::parse_outer: the cursor after the leading outer attributes
SkipAttrs(toks, p) ==
    IF p <= Len(toks) /\ toks[p] = "#[a]" THEN SkipAttrs(toks, p + 1) ELSE p

\* Variant::parse(&content): attributes, then the identifier (unit variants)
VariantParse(toks, p) ==
    LET q == SkipAttrs(toks, p)
    IN  IF q <= Len(toks) /\ IsIdent(toks[q])
        THEN [ok |-> TRUE, pos |-> q + 1,
              variant |-> [attrs |-> q - p, ident |-> toks[q]]]
        ELSE [ok |-> FALSE, pos |-> q, variant |-> [attrs |-> 0, ident |-> ""]]

\* variants.push_value(variant); variants.push_punct(punct)
PushValue(variants, variant) == Append(variants, variant)

PushInheritFront(inherits, ident) == <<ident>> \o inherits

\* inherits.push(ident)
PushInherit(inherits, ident) == Append(inherits, ident)

\* the state of the loop: the cursor, the two lists, and how the loop stands
Running(p, variants, inherits) ==
    [tag |-> "Run", msg |-> "", p |-> p, variants |-> variants,
     inherits |-> inherits]

Stopped(tag, msg, st) == [st EXCEPT !.tag = tag, !.msg = msg]

\* if let Ok(variant) = Variant::parse(&content) { ... }: the variant is
\* pushed, then the comma after it is required
AfterVariant(toks, v, st) ==
    IF v.pos <= Len(toks) /\ toks[v.pos] = ","
    THEN Running(v.pos + 1, PushValue(st.variants, v.variant), st.inherits)
    ELSE Stopped("Err", "expected ,", st)

\* else if `@` and the identifier `inherit` parse { inherits.push(ident?) }
\* else { panic!() }, from the cursor c that Variant::parse left
AfterNoVariant(toks, c, st) ==
    IF /\ c <= Len(toks) /\ toks[c] = "@"
       /\ c + 1 <= Len(toks) /\ IsIdent(toks[c + 1])
       /\ toks[c + 1] = "inherit"
    THEN IF c + 2 <= Len(toks) /\ IsIdent(toks[c + 2])
         THEN Running(c + 3, st.variants, PushInherit(st.inherits, toks[c + 2]))
         ELSE Stopped("Err", "expected identifier", st)
    ELSE Stopped("Panic", "Invalid inherit_variants usage!", st)

\* one turn of the loop
ParseStep(toks, v, st) ==
    IF v.ok THEN AfterVariant(toks, v, st) ELSE AfterNoVariant(toks, v.pos, st)

RECURSIVE ParseContent(_, _)
\* while !content.is_empty() { ... }
ParseContent(toks, st) ==
    IF st.tag # "Run" \/ st.p > Len(toks)
    THEN st
    ELSE ParseContent(toks, ParseStep(toks, VariantParse(toks, st.p), st))

ParsedEnum(body, st) ==
    IF st.tag = "Run"
    THEN Ok([enum_ |-> [kind |-> "Enum", attrs |-> body.attrs,
                        ident |-> body.ident, variants |-> st.variants],
             inherits |-> st.inherits])
    ELSE [tag |-> st.tag, val |-> None, msg |-> st.msg]

\* mac.parse_body_with(|input| { ... }): the header (attributes, visibility,
\* `enum`, identifier, generics, where-clause), then the braced content
parse_body_with(body) ==
    IF ~body.header
    THEN Err("expected enum")
    ELSE ParsedEnum(body, ParseContent(body.toks, Running(1, <<>>, <<>>)))

MapInherits(idents) == [i \in 1..Len(idents) |-> InheritFromIdent(idents[i])]

\* Some(RType::Enum(REnum::with_meta(enum_, EnumMeta { inherits })))
Replacement(r) ==
    IF r.tag # "Ok"
    THEN r
    ELSE Ok(Some(REnumNode(REnum_with_meta(
                r.val[1].enum_, [inherits |-> MapInherits(r.val[1].inherits)]))))

ExpandKeepsMacro(node) == Ok(None)

\* expand, the match: the content to replace the node with, if any
to_replace(node) ==
    IF node.kind = "Macro"
    THEN Replacement(parse_body_with(node.item.body))
    ELSE Ok(None)

ExpandWritesFirstNode(h, hp) ==
    LET r == to_replace(hp[h])
    IN  IF r.tag # "Ok"
        THEN [heap |-> hp, result |-> r]
        ELSE IF r.val[1] # None
             THEN [heap |-> [hp EXCEPT ![<<h[1], 1>>] = r.val[1][1]],
                   result |-> Ok(Unit)]
             ELSE [heap |-> hp, result |-> Ok(Unit)]

\* pub fn expand(type_def: &TypeRef): the heap after the call and its result
expand(h, hp) ==
    LET r == to_replace(hp[h])
    IN  IF r.tag # "Ok"
        THEN [heap |-> hp, result |-> r]
        ELSE IF r.val[1] # None
             THEN [heap |-> [hp EXCEPT ![h] = r.val[1][1]], result |-> Ok(Unit)]
             ELSE [heap |-> hp, result |-> Ok(Unit)]

(***************************************************************************)
(* The inputs: the items of a parsed file and the bodies of the macro      *)
(* invocations in it.                                                      *)
(***************************************************************************)
Body(header, attrs, ident, toks) ==
    [header |-> header, attrs |-> attrs, ident |-> ident, toks |-> toks]

EnumItem(attrs) ==
    [kind |-> "Enum", attrs |-> attrs, ident |-> "E",
     variants |-> <<[attrs |-> 0, ident |-> "A"]>>]

StructItem(attrs) == [kind |-> "Struct", attrs |-> attrs, ident |-> "S"]

UseItem == [kind |-> "Use"]

ConstItem == [kind |-> "Const", ident |-> "C"]

FnItem == [kind |-> "Fn", ident |-> "f"]

MacroItem(path, body) == [kind |-> "Macro", path |-> path, body |-> body]

AttrChoices == {<<>>, <<"derive">>, <<"derive", "visited_node">>}

\* a variant and a marker
BodyMixed == Body(TRUE, <<>>, "Foo", <<"A", ",", "@", "inherit", "B">>)

\* a marker and a variant, the enum in the body carrying the tag
BodyTagged ==
    Body(TRUE, <<"visited_node">>, "Foo", <<"@", "inherit", "B", "A", ",">>)

\* a last variant without its comma
BodyNoComma == Body(TRUE, <<>>, "Foo", <<"A">>)

\* a bare `@A`
BodyBareAt == Body(TRUE, <<>>, "Foo", <<"@", "A">>)

\* an attribute on a marker
BodyAttrMarker == Body(TRUE, <<>>, "Foo", <<"#[a]", "@", "inherit", "B">>)

\* not an enum at all
BodyNoEnum == Body(FALSE, <<>>, "Foo", <<>>)

SampleBodies ==
    {BodyMixed, BodyTagged, BodyNoComma, BodyBareAt, BodyAttrMarker, BodyNoEnum}

Items ==
    {EnumItem(a) : a \in AttrChoices} \cup {StructItem(a) : a \in AttrChoices}
    \cup {UseItem, ConstItem, FnItem}
    \cup {MacroItem(<<"inherit_variants">>, b) : b \in SampleBodies}
    \cup {MacroItem(<<"other">>, BodyMixed),
          MacroItem(<<"ast", "inherit_variants">>, BodyMixed)}

SeqsUpTo(S, n) == UNION {[1..k -> S] : k \in 0..n}

File(status, shebang, attrs, items) ==
    [status |-> status, shebang |-> shebang, attrs |-> attrs, items |-> items]

Files ==
    {File("ok", Some("#!x"), <<"allow">>, its) : its \in SeqsUpTo(Items, MaxItems)}
    \cup {File("io_error", None, <<>>, <<>>), File("syntax_error", None, <<>>, <<>>)}

\* the files of the second Module
BystanderFiles ==
    {File("ok", None, <<>>,
          <<EnumItem(<<"derive", "visited_node">>),
            MacroItem(<<"inherit_variants">>, BodyMixed)>>),
     File("io_error", None, <<>>, <<>>)}

Modules == {1, 2}

PathOf(m) == IF m = 1 THEN "ast/js.rs" ELSE "ast/ts.rs"

\* path.file_stem()
file_stem(path) == IF path = "ast/js.rs" THEN "js" ELSE "ts"

(***************************************************************************)
(* Module.                                                                 *)
(***************************************************************************)
\* Module::with_path
with_path(path) ==
    [path |-> path, module |-> file_stem(path), shebang |-> None,
     attrs |-> <<>>, items |-> <<>>, loaded |-> FALSE]

LoadFilterKeepsUntagged(it) ==
    \/ it.kind \in {"Use", "Const", "Enum", "Struct"}
    \/ it.kind = "Macro" /\ is_ident(it.path, "inherit_variants")

\* Module::load, the closure given to filter
LoadFilter(it) ==
    CASE it.kind \in {"Use", "Const"} -> TRUE
      [] it.kind = "Macro" /\ is_ident(it.path, "inherit_variants") -> TRUE
      [] it.kind \in {"Enum", "Struct"} ->
            \E i \in 1..Len(it.attrs) : is_ident(<<it.attrs[i]>>, "visited_node")
      [] OTHER -> FALSE

Handles(m, n) == [i \in 1..n |-> <<m, i>>]

\* Module::load after the file was read and parsed: the loaded Module and the
\* nodes it allocates, or the first conversion error
load(self, m, file) ==
    LET kept == SelectSeq(file.items, LoadFilter)
        conv == [i \in 1..Len(kept) |-> TryFromItem(kept[i])]
        bad == {i \in 1..Len(kept) : conv[i].tag = "Err"}
    IN  IF bad # {}
        THEN Err(conv[CHOOSE i \in bad : \A j \in bad : i <= j].msg)
        ELSE Ok([self |-> [self EXCEPT !.shebang = file.shebang,
                                       !.attrs = file.attrs,
                                       !.items = Handles(m, Len(kept)),
                                       !.loaded = TRUE],
                 cells |-> [h \in {<<m, i>> : i \in 1..Len(kept)} |->
                               conv[h[2]].val[1]]])

RECURSIVE try_for_each(_, _, _)
\* self.items.iter().try_for_each(expand), from item i on
try_for_each(items, i, hp) ==
    IF i > Len(items)
    THEN [heap |-> hp, result |-> Ok(Unit)]
    ELSE LET e == expand(items[i], hp)
         IN  IF e.result.tag # "Ok" THEN e ELSE try_for_each(items, i + 1, e.heap)

ModuleExpandUnguarded(self, hp) == try_for_each(self.items, 1, hp)

\* Module::expand
ModuleExpand(self, hp) ==
    IF ~self.loaded
    THEN [heap |-> hp, result |-> Err(LOAD_ERROR)]
    ELSE try_for_each(self.items, 1, hp)

\* impl From<&RType> for Option<TypeDef>
IntoTypeDef(node) ==
    IF node.kind \in {"Enum", "Struct"}
    THEN Some([kind |-> node.kind, def |-> node])
    ELSE None

RECURSIVE FilterMapReversed(_, _)
FilterMapReversed(items, hp) ==
    IF items = <<>>
    THEN <<>>
    ELSE FilterMapReversed(Tail(items), hp) \o IntoTypeDef(hp[Head(items)])

RECURSIVE filter_map(_, _)
\* self.items.into_iter().filter_map(|it| (&*it.borrow()).into()).collect()
filter_map(items, hp) ==
    IF items = <<>>
    THEN <<>>
    ELSE IntoTypeDef(hp[Head(items)]) \o filter_map(Tail(items), hp)

ModuleBuildNeedsExpanded(self, hp) ==
    IF ~self.loaded \/ \E i \in 1..Len(self.items) : hp[self.items[i]].kind = "Macro"
    THEN Err(LOAD_ERROR)
    ELSE Ok([source |-> self.path,
             definitions |-> [types |-> filter_map(self.items, hp)]])

\* Module::build
ModuleBuild(self, hp) ==
    IF ~self.loaded
    THEN Err(LOAD_ERROR)
    ELSE Ok([source |-> self.path,
             definitions |-> [types |-> filter_map(self.items, hp)]])

(***************************************************************************)
(* The state machine.  live[m]: the Module value has not been moved into a *)
(* call that consumed it.  res[m]: the last call on Module m and what it   *)
(* returned.  reads: how many times a file was opened.  nexp[m]: how many  *)
(* calls of expand returned Ok.  proc: a panic ends the program.           *)
(***************************************************************************)
Outcome(op, r) == Some([op |-> op, tag |-> r.tag, msg |-> r.msg])

EmptyHeap == [h \in {} |-> Unit]

Init ==
    /\ \E a \in Files, b \in BystanderFiles :
          fs = [m \in Modules |-> IF m = 1 THEN a ELSE b]
    /\ mod = [m \in Modules |-> with_path(PathOf(m))]
    /\ live = [m \in Modules |-> TRUE]
    /\ res = [m \in Modules |-> None]
    /\ schema = [m \in Modules |-> None]
    /\ heap = EmptyHeap
    /\ reads = 0
    /\ proc = "running"
    /\ nexp = [m \in Modules |-> 0]
    /\ arg = None
    /\ ret = None

\* assert!(!self.loaded, "can't load twice!")
LoadTwice(m) ==
    /\ proc = "running" /\ live[m]
    /\ mod[m].loaded
    /\ proc' = "panicked"
    /\ res' = [res EXCEPT ![m] = Outcome("load", Panic("can't load twice!"))]
    /\ UNCHANGED <<fs, mod, live, schema, heap, reads, nexp, arg, ret>>

\* Module::load: File::open or read_to_string or parse_file fails
LoadFail(m) ==
    /\ proc = "running" /\ live[m]
    /\ ~mod[m].loaded
    /\ fs[m].status # "ok"
    /\ reads' = reads + 1
    /\ live' = [live EXCEPT ![m] = FALSE]
    /\ res' = [res EXCEPT ![m] = Outcome("load", Err(fs[m].status))]
    /\ UNCHANGED <<fs, mod, schema, heap, proc, nexp, arg, ret>>

\* Module::load on a file that is read and parsed
Load(m) ==
    /\ proc = "running" /\ live[m]
    /\ ~mod[m].loaded
    /\ fs[m].status = "ok"
    /\ reads' = reads + 1
    /\ LET r == load(mod[m], m, fs[m])
       IN  /\ res' = [res EXCEPT ![m] = Outcome("load", r)]
           /\ IF r.tag = "Ok"
              THEN /\ mod' = [mod EXCEPT ![m] = r.val[1].self]
                   /\ heap' = r.val[1].cells @@ heap
                   /\ live' = live
              ELSE /\ live' = [live EXCEPT ![m] = FALSE]
                   /\ UNCHANGED <<mod, heap>>
    /\ UNCHANGED <<fs, schema, proc, nexp, arg, ret>>

\* Module::expand
Expand(m) ==
    /\ proc = "running" /\ live[m]
    /\ nexp[m] < MaxExpands
    /\ LET e == ModuleExpand(mod[m], heap)
       IN  /\ res' = [res EXCEPT ![m] = Outcome("expand", e.result)]
           /\ heap' = e.heap
           /\ live' = [live EXCEPT ![m] = e.result.tag # "Err"]
           /\ proc' = IF e.result.tag = "Panic" THEN "panicked" ELSE proc
           /\ nexp' = [nexp EXCEPT ![m] = IF e.result.tag = "Ok" THEN @ + 1 ELSE @]
    /\ UNCHANGED <<fs, mod, schema, reads, arg, ret>>

\* Module::build
Build(m) ==
    /\ proc = "running" /\ live[m]
    /\ LET r == ModuleBuild(mod[m], heap)
       IN  /\ res' = [res EXCEPT ![m] = Outcome("build", r)]
           /\ schema' = [schema EXCEPT ![m] = IF r.tag = "Ok" THEN r.val ELSE @]
    /\ live' = [live EXCEPT ![m] = FALSE]
    /\ UNCHANGED <<fs, mod, heap, reads, proc, nexp, arg, ret>>

Next ==
    \E m \in Modules :
        LoadTwice(m) \/ LoadFail(m) \/ Load(m) \/ Expand(m) \/ Build(m)

Spec == Init /\ [][Next]_vars

(***************************************************************************)
(* The free function expand on a node that no Module owns.                 *)
(***************************************************************************)
\* enum Foo { A, @inherit Bar, B, @inherit Baz }
ExampleBody ==
    Body(TRUE, <<>>, "Foo",
         <<"A", ",", "@", "inherit", "Bar", ",", "B", ",", "@", "inherit", "Baz">>)

\* enum Foo { A, @inherit Bar B, @inherit Baz }
ExampleBodyNoCommaAfterMarker ==
    Body(TRUE, <<>>, "Foo",
         <<"A", ",", "@", "inherit", "Bar", "B", ",", "@", "inherit", "Baz">>)

\* the bodies of at most n tokens, and the examples
NodeBodies(n) ==
    {Body(TRUE, <<>>, "Foo", toks) : toks \in SeqsUpTo(Tokens, n)}
    \cup {ExampleBody, ExampleBodyNoCommaAfterMarker, BodyNoEnum}

NodeInputs(n) ==
    {[kind |-> "Macro", item |-> MacroItem(p, b)] :
        p \in {<<"inherit_variants">>, <<"other">>}, b \in NodeBodies(n)}
    \cup {TryFromItem(it).val[1] :
            it \in {EnumItem(<<>>), StructItem(<<>>), UseItem, ConstItem}}

Standalone == <<0, 1>>

InitNode ==
    /\ fs = [m \in Modules |-> File("io_error", None, <<>>, <<>>)]
    /\ mod = [m \in Modules |-> with_path(PathOf(m))]
    /\ live = [m \in Modules |-> FALSE]
    /\ res = [m \in Modules |-> None]
    /\ schema = [m \in Modules |-> None]
    /\ \E n \in NodeInputs(MaxBodyLen) :
          /\ heap = [h \in {Standalone} |-> n]
          /\ arg = Some(n)
    /\ reads = 0
    /\ proc = "running"
    /\ nexp = [m \in Modules |-> 0]
    /\ ret = None

\* expand(&type_def) called on the node
ExpandNode(h) ==
    /\ proc = "running"
    /\ LET e == expand(h, heap)
       IN  /\ heap' = e.heap
           /\ ret' = Some(e.result)
           /\ proc' = IF e.result.tag = "Panic" THEN "panicked" ELSE proc
    /\ UNCHANGED <<fs, mod, live, res, schema, reads, nexp, arg>>

NextNode == \E h \in DOMAIN heap : ExpandNode(h)

SpecNode == InitNode /\ [][NextNode]_vars

(***************************************************************************)
(* What the properties below are stated with.                              *)
(***************************************************************************)
\* the k-th smallest element of a set of numbers
KthOf(S, k) == CHOOSE i \in S : Cardinality({j \in S : j <= i}) = k

HasTag(attrs) == \E i \in 1..Len(attrs) : attrs[i] = "visited_node"

\* attributes, then an identifier
IsVariantPiece(piece) ==
    /\ Len(piece) >= 1
    /\ IsIdent(piece[Len(piece)])
    /\ \A i \in 1..(Len(piece) - 1) : piece[i] = "#[a]"

\* @inherit <Name>
IsMarkerPiece(piece) ==
    /\ Len(piece) = 3
    /\ piece[1] = "@" /\ piece[2] = "inherit" /\ IsIdent(piece[3])

VariantOfPiece(piece) == [attrs |-> Len(piece) - 1, ident |-> piece[Len(piece)]]

VariantsOfPieces(pieces) ==
    LET vs == SelectSeq(pieces, IsVariantPiece)
    IN  [i \in 1..Len(vs) |-> VariantOfPiece(vs[i])]

InheritsOfPieces(pieces) ==
    LET ms == SelectSeq(pieces, IsMarkerPiece)
    IN  [i \in 1..Len(ms) |-> Unlinked(ms[i][3])]

Commas(toks) == {i \in 1..Len(toks) : toks[i] = ","}

RECURSIVE SplitComma(_)
\* the pieces between the commas of toks
SplitComma(toks) ==
    IF Commas(toks) = {}
    THEN <<toks>>
    ELSE LET i == KthOf(Commas(toks), 1)
         IN  <<SubSeq(toks, 1, i - 1)>> \o SplitComma(SubSeq(toks, i + 1, Len(toks)))

\* the entries of a body written as a comma-separated list, a comma after
\* the last entry allowed: `A, @inherit Bar, B, @inherit Baz`
ListPieces(toks) ==
    LET ps == SplitComma(toks)
    IN  IF ps[Len(ps)] = <<>> THEN SubSeq(ps, 1, Len(ps) - 1) ELSE ps

IsList(toks) ==
    \A i \in 1..Len(ListPieces(toks)) :
        IsVariantPiece(ListPieces(toks)[i]) \/ IsMarkerPiece(ListPieces(toks)[i])

\* the first segment of toks from p on, in the grammar where every variant is
\* followed by its comma and no marker is: its tokens and the cursor after it
FirstSegment(toks, p) ==
    IF toks[p] = "@"
    THEN LET e == IF p + 2 <= Len(toks) THEN p + 2 ELSE Len(toks)
         IN  [ok |-> IsMarkerPiece(SubSeq(toks, p, e)),
              piece |-> SubSeq(toks, p, e), next |-> p + 3]
    ELSE LET cs == {i \in Commas(toks) : i >= p}
             q == IF cs = {} THEN Len(toks) + 1 ELSE KthOf(cs, 1)
         IN  [ok |-> cs # {} /\ IsVariantPiece(SubSeq(toks, p, q - 1)),
              piece |-> SubSeq(toks, p, q - 1), next |-> q + 1]

RECURSIVE SegmentsFrom(_, _, _)
SegmentsFrom(toks, p, acc) ==
    IF p > Len(toks)
    THEN [ok |-> TRUE, pieces |-> acc]
    ELSE IF ~FirstSegment(toks, p).ok
         THEN [ok |-> FALSE, pieces |-> acc]
         ELSE SegmentsFrom(toks, FirstSegment(toks, p).next,
                           Append(acc, FirstSegment(toks, p).piece))

\* a body of segments, each `<variant> ,` or `@inherit <Name>`
Segments(toks) == SegmentsFrom(toks, 1, <<>>)

\* the enum a body stands for, given its entries
EnumOf(body, pieces) ==
    [kind |-> "Enum",
     item |-> [kind |-> "Enum", attrs |-> body.attrs, ident |-> body.ident,
               variants |-> VariantsOfPieces(pieces)],
     meta |-> [inherits |-> InheritsOfPieces(pieces)]]

ExpandCalled == ret # None /\ arg # None

ArgIsMacro == arg[1].kind = "Macro"

ArgBody == arg[1].item.body

(***************************************************************************)
(* C1.  As claimed: for every body that is a list of variants and          *)
(* `@inherit <Name>` markers in any interleaving, written like             *)
(* `enum Foo { A, @inherit Bar, B, @inherit Baz }`, expand succeeds and    *)
(* the node becomes the enum of the declared name whose variants are the   *)
(* variants of the body in source order and whose inherits are             *)
(* Unlinked(name) for each marker in source order.                         *)
(***************************************************************************)
C1_AsClaimed ==
    (ExpandCalled /\ ArgIsMacro /\ ArgBody.header /\ IsList(ArgBody.toks))
    => /\ ret[1] = Ok(Unit)
       /\ heap[Standalone] = EnumOf(ArgBody, ListPieces(ArgBody.toks))

(***************************************************************************)
(* C1, amended.  For every body that is a sequence, in any interleaving,   *)
(* of variants each followed by a comma and of `@inherit <Name>` markers   *)
(* not followed by a comma (`enum Foo { A, @inherit Bar B, @inherit Baz }`)*)
(* expand succeeds and the node becomes the enum of the declared name      *)
(* whose variants are the variants of the body in source order and whose   *)
(* inherits are Unlinked(name) for each marker in source order.            *)
(***************************************************************************)
C1_Amended ==
    (ExpandCalled /\ ArgIsMacro /\ ArgBody.header /\ Segments(ArgBody.toks).ok)
    => /\ ret[1] = Ok(Unit)
       /\ heap[Standalone] = EnumOf(ArgBody, Segments(ArgBody.toks).pieces)

\* expand was called on  enum Foo { A, @inherit Bar B, @inherit Baz }
C1_Witness ==
    /\ ExpandCalled /\ ArgIsMacro
    /\ ArgBody = ExampleBodyNoCommaAfterMarker
    /\ Segments(ArgBody.toks).ok
    /\ heap[Standalone].kind = "Enum"
    /\ Len(heap[Standalone].item.variants) = 2
    /\ Len(heap[Standalone].meta.inherits) = 2

(***************************************************************************)
(* C9.  As claimed: expand rewrites a node if and only if it is a macro    *)
(* invocation whose invoked name is inherit_variants; a macro invocation   *)
(* with any other name is left untouched; every rewritten node is an enum  *)
(* all of whose inherits are Unlinked.                                     *)
(***************************************************************************)
C9_AsClaimed ==
    ExpandCalled
    => /\ (heap[Standalone] # arg[1])
             => /\ ArgIsMacro
                /\ is_ident(arg[1].item.path, "inherit_variants")
                /\ heap[Standalone].kind = "Enum"
                /\ \A i \in 1..Len(heap[Standalone].meta.inherits) :
                      heap[Standalone].meta.inherits[i].tag = "Unlinked"
       /\ (/\ ArgIsMacro
           /\ is_ident(arg[1].item.path, "inherit_variants")
           /\ ret[1].tag = "Ok")
             => heap[Standalone] # arg[1]

(***************************************************************************)
(* What the properties of the Module are stated with.                      *)
(***************************************************************************)
FileItems(m) == fs[m].items

\* the node that an item of the file becomes
NodeOf(it) ==
    IF it.kind = "Enum"
    THEN [kind |-> "Enum", item |-> it, meta |-> [inherits |-> <<>>]]
    ELSE IF it.kind = "Struct"
         THEN [kind |-> "Struct", item |-> it, meta |-> StructMeta]
         ELSE [kind |-> it.kind, item |-> it]

IsPassThrough(it) == it.kind \in {"Use", "Const"}

IsInheritMacro(it) == it.kind = "Macro" /\ it.path = <<"inherit_variants">>

IsTaggedType(it) == it.kind \in {"Enum", "Struct"} /\ HasTag(it.attrs)

Kept(it) == IsPassThrough(it) \/ IsInheritMacro(it) \/ IsTaggedType(it)

KeptIndices(m) == {i \in 1..Len(FileItems(m)) : Kept(FileItems(m)[i])}

TaggedIndices(m) == {i \in 1..Len(FileItems(m)) : IsTaggedType(FileItems(m)[i])}

\* the contents of the nodes of Module m, in the order of its list
Contents(m) == [k \in 1..Len(mod[m].items) |-> heap[mod[m].items[k]]]

LastCall(m, op) == res[m] # None /\ res[m][1].op = op

Returned(m, op, tag) == LastCall(m, op) /\ res[m][1].tag = tag

\* load has succeeded on Module m and expand has not been called on it since
JustLoaded(m) == mod[m].loaded /\ nexp[m] = 0 /\ ~LastCall(m, "expand")

(***************************************************************************)
(* C2.  A load of a parsed file returns no error and sets the node list to *)
(* the subsequence of the file's items that are imports or constants,      *)
(* invocations of inherit_variants, or enums and structs carrying          *)
(* visited_node; the kept nodes are in source order, each converted to the *)
(* node variant of its own kind.                                           *)
(***************************************************************************)
C2_LoadKeepsExactly ==
    \A m \in Modules :
        /\ (LastCall(m, "load") /\ fs[m].status = "ok")
              => (~Returned(m, "load", "Err") /\ mod[m].loaded /\ live[m])
        /\ JustLoaded(m)
              => /\ Len(mod[m].items) = Cardinality(KeptIndices(m))
                 /\ \A k \in 1..Len(mod[m].items) :
                       Contents(m)[k] = NodeOf(FileItems(m)[KthOf(KeptIndices(m), k)])

\* a file of two items of which load kept the second and dropped the first
C2_Witness ==
    /\ Returned(1, "load", "Ok") /\ JustLoaded(1)
    /\ Len(FileItems(1)) = 2
    /\ ~Kept(FileItems(1)[1])
    /\ Len(mod[1].items) = 1
    /\ heap[mod[1].items[1]].kind = "Macro"

(***************************************************************************)
(* C3.  For a file of N tagged enums and structs and M imports and         *)
(* constants in any order, load yields N+M nodes in source order, and      *)
(* build after expand yields a Schema whose definitions are exactly the N  *)
(* enum and struct nodes in their original relative order.                 *)
(***************************************************************************)
OnlyTypesAndPassThrough(m) ==
    /\ fs[m].status = "ok"
    /\ \A i \in 1..Len(FileItems(m)) :
          IsTaggedType(FileItems(m)[i]) \/ IsPassThrough(FileItems(m)[i])

Definitions(m) == schema[m][1].definitions.types

BuiltAfterExpand(m) == Returned(m, "build", "Ok") /\ nexp[m] >= 1

\* C3: load yields the N+M nodes in source order; build after expand yields the N type nodes in order
C3_CountsAndOrder ==
    \A m \in Modules :
        OnlyTypesAndPassThrough(m)
        => /\ JustLoaded(m)
              => Contents(m) = [i \in 1..Len(FileItems(m)) |-> NodeOf(FileItems(m)[i])]
           /\ BuiltAfterExpand(m)
              => /\ schema[m] # None
                 /\ Len(Definitions(m)) = Cardinality(TaggedIndices(m))
                 /\ \A k \in 1..Len(Definitions(m)) :
                       /\ Definitions(m)[k].def =
                             NodeOf(FileItems(m)[KthOf(TaggedIndices(m), k)])
                       /\ Definitions(m)[k].kind = Definitions(m)[k].def.kind

\* an import or a constant, then a tagged type, built after expand
C3_Witness ==
    /\ OnlyTypesAndPassThrough(1) /\ BuiltAfterExpand(1)
    /\ Len(FileItems(1)) = 2
    /\ IsPassThrough(FileItems(1)[1]) /\ IsTaggedType(FileItems(1)[2])
    /\ Len(Definitions(1)) = 1

(***************************************************************************)
(* C4.  expand or build called on a Module on which load has not succeeded *)
(* returns the error LOAD_ERROR, opens no file, changes no node and        *)
(* no Module, and produces no Schema.                                      *)
(***************************************************************************)
C4_NotLoaded ==
    [][\A m \in Modules :
          (~mod[m].loaded /\ (Expand(m) \/ Build(m)))
          => /\ res'[m][1].tag = "Err" /\ res'[m][1].msg = LOAD_ERROR
             /\ reads' = reads
             /\ heap' = heap
             /\ mod' = mod
             /\ schema' = schema /\ schema[m] = None]_vars

\* expand returned LOAD_ERROR for Module 1 while the nodes of Module 2 exist
C4_Witness ==
    /\ res[1] = Outcome("expand", Err(LOAD_ERROR))
    /\ ~mod[1].loaded
    /\ mod[2].loaded /\ Len(mod[2].items) = 2
    /\ reads = 1

(***************************************************************************)
(* C5.  As claimed: if a body of a Module holds a segment that is neither  *)
(* a variant nor `@inherit <Name>`, expand fails for that Module, the      *)
(* failure is that of the first such body in node order, no Schema is      *)
(* produced and no node of another Module changes.                         *)
(***************************************************************************)
\* a body that is no list of variants and markers, however it is punctuated
HasInvalidSegment(body) ==
    body.header /\ ~IsList(body.toks) /\ ~Segments(body.toks).ok

InvalidBodies(m) ==
    {i \in KeptIndices(m) :
        FileItems(m)[i].kind = "Macro" /\ HasInvalidSegment(FileItems(m)[i].body)}

\* C5: a Module with a body holding an invalid segment fails to expand and gets no Schema
C5_AsClaimed ==
    \A m \in Modules :
        (mod[m].loaded /\ LastCall(m, "expand") /\ InvalidBodies(m) # {})
        => /\ res[m][1].tag # "Ok"
           /\ schema[m] = None

(***************************************************************************)
(* C6.  As claimed: for a file in which no declaration carries             *)
(* visited_node, the Schema of load, expand, build has no definitions.     *)
(***************************************************************************)
NoTagAnywhere(m) ==
    \A i \in 1..Len(FileItems(m)) :
        LET it == FileItems(m)[i]
        IN  /\ it.kind \in {"Enum", "Struct"} => ~HasTag(it.attrs)
            /\ it.kind = "Macro" => ~HasTag(it.body.attrs)

\* C6: a file without visited_node on any declaration builds an empty Schema
C6_AsClaimed ==
    \A m \in Modules :
        (BuiltAfterExpand(m) /\ NoTagAnywhere(m)) => Definitions(m) = <<>>

(***************************************************************************)
(* C7.  After a successful expand of a loaded Module no node is a macro    *)
(* invocation, and a further expand succeeds and changes no node.          *)
(***************************************************************************)
\* C7: after a successful expand no node of the Module is a macro invocation
C7_NoMacroLeft ==
    \A m \in Modules :
        (mod[m].loaded /\ nexp[m] >= 1)
        => \A k \in 1..Len(mod[m].items) : Contents(m)[k].kind # "Macro"

\* C7: an expand after a successful expand returns Ok and changes no node
C7_SecondExpand ==
    \A m \in Modules :
        (mod[m].loaded /\ nexp[m] >= 1 /\ Expand(m))
        => /\ res'[m] = Outcome("expand", Ok(Unit))
           /\ nexp'[m] = nexp[m] + 1
           /\ heap' = heap

\* C7: expansion is idempotent (both parts above)
C7_Idempotent == []C7_NoMacroLeft /\ [][C7_SecondExpand]_vars

\* expand succeeded twice on a Module that was loaded with a macro invocation
C7_Witness ==
    /\ nexp[1] = 2 /\ Returned(1, "expand", "Ok")
    /\ \E i \in KeptIndices(1) : FileItems(1)[i].kind = "Macro"
    /\ \E k \in 1..Len(mod[1].items) : Len(Contents(1)[k].meta.inherits) = 1

(***************************************************************************)
(* C8.  Module.expand changes only the content of macro-invocation nodes:  *)
(* the node list keeps its length, order and handles, every other node     *)
(* keeps its content, and path, module name, header marker, attributes and *)
(* the loaded flag are unchanged.                                          *)
(***************************************************************************)
HandlesOf(m) == {mod[m].items[k] : k \in 1..Len(mod[m].items)}

\* C8: expand changes nothing but the content of macro-invocation nodes of its Module
C8_Frame ==
    [][\A m \in Modules :
          (mod[m].loaded /\ Expand(m))
          => /\ mod'[m] = mod[m]
             /\ DOMAIN heap' = DOMAIN heap
             /\ \A h \in DOMAIN heap :
                   (heap[h].kind # "Macro" \/ h \notin HandlesOf(m))
                   => heap'[h] = heap[h]]_vars

\* expand rewrote the second node of Module 1 and kept its first, a constant
C8_Witness ==
    /\ Returned(1, "expand", "Ok") /\ nexp[1] = 1
    /\ Len(mod[1].items) = 2
    /\ FileItems(1)[1].kind = "Const" /\ FileItems(1)[2].kind = "Macro"
    /\ Contents(1)[1].kind = "Const" /\ Contents(1)[2].kind = "Enum"

(***************************************************************************)
(* C10.  build called after a successful load, without expand, succeeds;   *)
(* its Schema holds the tagged enum and struct nodes in order and no       *)
(* unexpanded invocation of inherit_variants.                              *)
(***************************************************************************)
BuiltUnexpanded(m) == mod[m].loaded /\ LastCall(m, "build") /\ nexp[m] = 0

\* C10: build right after load returns Ok with the tagged types only, in order
C10_BuildWithoutExpand ==
    \A m \in Modules :
        BuiltUnexpanded(m)
        => /\ Returned(m, "build", "Ok")
           /\ schema[m] # None
           /\ schema[m][1].source = mod[m].path
           /\ Len(Definitions(m)) = Cardinality(TaggedIndices(m))
           /\ \A k \in 1..Len(Definitions(m)) :
                 Definitions(m)[k].def =
                    NodeOf(FileItems(m)[KthOf(TaggedIndices(m), k)])

\* built without expand: a tagged enum is in the Schema, the invocation is not
C10_Witness ==
    /\ BuiltUnexpanded(1) /\ Returned(1, "build", "Ok")
    /\ Len(FileItems(1)) = 2
    /\ IsTaggedType(FileItems(1)[1]) /\ IsInheritMacro(FileItems(1)[2])
    /\ Len(mod[1].items) = 2
    /\ Len(Definitions(1)) = 1

====
